---- MODULE Spec2Model ----
(***************************************************************************)
(* State-machine model of FinancialPortfolioAnalyzer                       *)
(* (src/portfolio_analyzer.py): the SQLite tables users, portfolios,       *)
(* holdings and market_data, and the methods that read and write them.     *)
(*                                                                         *)
(* Numbers.  quantity, purchase_price and price are Python floats.  The    *)
(* model draws them from small sets of integers, on which +, - and * are   *)
(* exact in binary floating point; a quotient (gain_percent, tech_weight)  *)
(* is kept as an exact fraction [n, d] in lowest terms.  On these inputs   *)
(* the comparisons the code makes (> 0, != 0, > 0.4, > 0.2) give the same  *)
(* answer on the fraction as on the correctly rounded float.               *)
(***************************************************************************)
EXTENDS Integers, Sequences, FiniteSets, TLC

\* ------------------------------------------------------------------ bounds
MaxLots == 2
MaxPortfolios == 1
MaxBatch == 2

\* ------------------------------------------------------------ input domains
Symbols == {"AAPL", "ZZZ"}
\* <<quantity, purchase_price>> of a lot; the form that adds one keeps both
\* >= 0.
LotShapes == {<<0, 100>>, <<10, 0>>, <<10, 100>>, <<10, 200>>, <<40, 100>>}
QuotePrices == {100, 150}
ApiPrices == {150}
Dates == {"2024-01-01"}
Usernames == {"alice"}
Passwords == {"pw"}
RiskProfileNames == {"moderate"}
UserIds == {1}
PortfolioNames == {"Main"}
PortfolioIds == 1..MaxPortfolios

VARIABLES users, portfolios, holdings, market_data, result

vars == <<users, portfolios, holdings, market_data, result>>

\* ------------------------------------------------------------------ helpers
\* Python's None, and "no row" of cursor.fetchone().
None == <<>>

\* The empty dict {}.
EmptyDict == <<>>

\* Python truth of a dict, a row or None: false when None or empty.
Truthy(x) == DOMAIN x # {}

\* d[k] = v on a dict.
DictPut(d, k, v) == [x \in (DOMAIN d) \cup {k} |-> IF x = k THEN v ELSE d[x]]

\* d.get(k, default)
DictGet(d, k, default) == IF k \in DOMAIN d THEN d[k] ELSE default

\* The symbols of a batch.
Range(seq) == {seq[i] : i \in 1..Len(seq)}

Abs(x) == IF x < 0 THEN -x ELSE x

RECURSIVE GCD(_, _)
GCD(a, b) == IF b = 0 THEN a ELSE GCD(b, a % b)

\* What a division by zero leaves: Python raises ZeroDivisionError there.
Undefined == [n |-> 0, d |-> 0]

\* The fraction n/d in lowest terms with a positive denominator.
Frac(n, d) ==
    IF d = 0 THEN Undefined
    ELSE LET g == GCD(Abs(n), Abs(d))
             s == IF d < 0 THEN -1 ELSE 1
         IN [n |-> (s * n) \div g, d |-> (s * d) \div g]

FracInt(k) == [n |-> k, d |-> 1]
FracZero == FracInt(0)
FracAdd(x, y) == Frac(x.n * y.d + y.n * x.d, x.d * y.d)
FracSub(x, y) == Frac(x.n * y.d - y.n * x.d, x.d * y.d)
FracMul(x, y) == Frac(x.n * y.n, x.d * y.d)
FracDiv(x, y) == Frac(x.n * y.d, x.d * y.n)
FracGt(x, y) == x.n * y.d > y.n * x.d

\* ------------------------------------------------------------- module names
\* The names the module binds at import time (lines 1-39).  `concurrent` is
\* not among them: no line imports concurrent or concurrent.futures.
ModuleImports ==
    {"os", "sys", "json", "datetime", "logging", "argparse", "itertools",
     "functools", "re", "math", "random", "statistics", "copy", "unittest",
     "doctest", "time", "sqlite3", "csv", "pickle", "hashlib", "secrets",
     "socket", "ssl", "asyncio", "threading", "multiprocessing", "subprocess",
     "configparser", "glob", "shutil", "tempfile", "urllib", "webbrowser",
     "warnings"}

\* ---------------------------------------------------------------- json text
\* json.dumps of a quote: the text, as the sequence of its key/value pairs.
json_dumps(data) == << <<"symbol", data.symbol>>, <<"price", data.price>> >>

\* json.loads of such a text.
json_loads(text) == [symbol |-> text[1][2], price |-> text[2][2]]

\* A quote as _fetch_from_api builds it (fields other than price left out).
Quote(symbol, price) == [symbol |-> symbol, price |-> price]

\* ------------------------------------------------------------------- Init
Init ==
    /\ users = <<>>
    /\ portfolios = <<>>
    /\ holdings = <<>>
    /\ market_data = [s \in Symbols |-> None]
    /\ result = [op |-> "__init__"]

\* The tables as a call finds them; every call's record keeps them in `before`.
Before ==
    [users |-> users, portfolios |-> portfolios, holdings |-> holdings,
     market_data |-> market_data]

\* hashlib.sha256(password.encode()).hexdigest(): an injective digest.
sha256(password) == <<"sha256", password>>

\* create_user
CreateUser(username, password, risk_profile) ==
    /\ UNCHANGED <<portfolios, holdings, market_data>>
    /\ IF \E i \in 1..Len(users) : users[i].username = username
       THEN /\ UNCHANGED users
            /\ result' = [op |-> "create_user", exc |-> "IntegrityError",
                          before |-> Before]
       ELSE /\ users' = Append(users, [username |-> username,
                                       password_hash |-> sha256(password),
                                       risk_profile |-> risk_profile])
            /\ result' = [op |-> "create_user", exc |-> "None",
                          before |-> Before,
                          ret |-> Len(users) + 1]

\* create_portfolio: cursor.lastrowid is the new row's id.
CreatePortfolio(user_id, name) ==
    /\ Len(portfolios) < MaxPortfolios
    /\ portfolios' = Append(portfolios, [id |-> Len(portfolios) + 1,
                                         user_id |-> user_id, name |-> name])
    /\ result' = [op |-> "create_portfolio", exc |-> "None",
                  before |-> Before,
                  ret |-> Len(portfolios) + 1]
    /\ UNCHANGED <<users, holdings, market_data>>

\* Mutant of AddHolding: a lot of a symbol the portfolio already holds is
\* written over that lot (an upsert on portfolio and symbol).
UpsertHolding(portfolio_id, symbol, quantity, purchase_price, purchase_date) ==
    LET lot == [portfolio_id |-> portfolio_id, symbol |-> symbol,
                quantity |-> quantity, purchase_price |-> purchase_price,
                purchase_date |-> purchase_date]
        Same(i) == /\ holdings[i].portfolio_id = portfolio_id
                   /\ holdings[i].symbol = symbol
    IN /\ Len(holdings) < MaxLots
       /\ holdings' = IF \E i \in 1..Len(holdings) : Same(i)
                      THEN [i \in 1..Len(holdings) |->
                              IF Same(i) THEN lot ELSE holdings[i]]
                      ELSE Append(holdings, lot)
       /\ result' = [op |-> "add_holding", exc |-> "None",
                     before |-> Before,
                     arg |-> <<portfolio_id, symbol, quantity, purchase_price,
                               purchase_date>>]
       /\ UNCHANGED <<users, portfolios, market_data>>

\* add_holding: one INSERT; SQLite does not enforce the FOREIGN KEY clause
\* (no PRAGMA foreign_keys), so any portfolio_id is accepted.
AddHolding(portfolio_id, symbol, quantity, purchase_price, purchase_date) ==
    /\ Len(holdings) < MaxLots
    /\ holdings' = Append(holdings, [portfolio_id |-> portfolio_id,
                                     symbol |-> symbol,
                                     quantity |-> quantity,
                                     purchase_price |-> purchase_price,
                                     purchase_date |-> purchase_date])
    /\ result' = [op |-> "add_holding", exc |-> "None",
                  before |-> Before,
                  arg |-> <<portfolio_id, symbol, quantity, purchase_price,
                            purchase_date>>]
    /\ UNCHANGED <<users, portfolios, market_data>>

\* Mutant of update_market_data: INSERT OR IGNORE, an existing row is kept.
update_market_data_ignore(table, md) ==
    [s \in Symbols |-> IF s \in DOMAIN md /\ table[s] = <<>>
                       THEN << <<"symbol", md[s].symbol>>,
                               <<"price", md[s].price>> >>
                       ELSE table[s]]

\* _update_market_data: INSERT OR REPLACE of every item of the dict, applied
\* to the table `table` (symbol is the PRIMARY KEY: one row per symbol).
update_market_data(table, md) ==
    [s \in Symbols |-> IF s \in DOMAIN md THEN json_dumps(md[s]) ELSE table[s]]

\* A direct call of _update_market_data.
UpdateMarketData(md) ==
    /\ market_data' = update_market_data(market_data, md)
    /\ result' = [op |-> "_update_market_data", exc |-> "None",
                  before |-> Before, arg |-> md]
    /\ UNCHANGED <<users, portfolios, holdings>>

\* Mutant of CachedLoop: a symbol without a row gets a quote of price 0.
RECURSIVE CachedLoopDefaulting(_, _, _)
CachedLoopDefaulting(symbols, i, results) ==
    IF i > Len(symbols) THEN results
    ELSE CachedLoopDefaulting(symbols, i + 1,
            DictPut(results, symbols[i],
                    IF Truthy(market_data[symbols[i]])
                    THEN json_loads(market_data[symbols[i]])
                    ELSE Quote(symbols[i], 0)))

\* get_cached_market_data: the loop over `symbols`, from position i on.
RECURSIVE CachedLoop(_, _, _)
CachedLoop(symbols, i, results) ==
    IF i > Len(symbols) THEN results
    ELSE LET symbol == symbols[i]
             row == market_data[symbol]
         IN CachedLoop(symbols, i + 1,
                       IF Truthy(row)
                       THEN DictPut(results, symbol, json_loads(row))
                       ELSE results)

get_cached_market_data(symbols) == CachedLoop(symbols, 1, EmptyDict)

GetCachedMarketData(symbols) ==
    /\ result' = [op |-> "get_cached_market_data", exc |-> "None",
                  before |-> Before,
                  arg |-> symbols, ret |-> get_cached_market_data(symbols)]
    /\ UNCHANGED <<users, portfolios, holdings, market_data>>

\* _fetch_from_api: the quote, or None when the request fails, the response is
\* malformed or carries no "Global Quote".  api[symbol] is what the price
\* service does for this request.
fetch_from_api(api, symbol) ==
    IF api[symbol].ok THEN Quote(symbol, api[symbol].price) ELSE None

\* fetch_market_data, lines 188-190: zip(symbols, gathered results).
RECURSIVE GatherLoop(_, _, _, _)
GatherLoop(symbols, api, i, results) ==
    IF i > Len(symbols) THEN results
    ELSE LET symbol == symbols[i]
             res == fetch_from_api(api, symbol)
         IN GatherLoop(symbols, api, i + 1,
                       IF Truthy(res) THEN DictPut(results, symbol, res)
                       ELSE results)

\* _create_default_config, line 67: max_threads, the max_workers of the pool.
max_threads == 5

\* fetch_market_data, lines 182-190: the events of the pool's tasks, one task
\* per symbol submitted in the order of `symbols`.  The pool takes tasks off
\* its queue in that order while fewer than max_threads are running; `next`
\* is the next task to start and `oldest` the earliest one still running.
\* (Tasks are taken to end in the order they started.)
RECURSIVE PoolEvents(_, _, _, _, _)
PoolEvents(symbols, api, next, oldest, events) ==
    IF oldest > Len(symbols) THEN events
    ELSE IF next <= Len(symbols) /\ next - oldest < max_threads
    THEN PoolEvents(symbols, api, next + 1, oldest,
                    Append(events, [ev |-> "start", symbol |-> symbols[next]]))
    ELSE PoolEvents(symbols, api, next, oldest + 1,
                    Append(events, [ev |-> "end", symbol |-> symbols[oldest],
                                    ok |-> api[symbols[oldest]].ok]))

\* Whether evaluating the global name `name` succeeds in this module.
NameBound(name) == name \in ModuleImports

\* Mutant of FetchMarketData: the lots of the batch's symbols whose fetch
\* fails are purged from the ledger before the fetch.
FetchMarketDataPurging(symbols, api) ==
    LET Kept(lot) == ~(lot.symbol \in Range(symbols) /\ ~api[lot.symbol].ok)
    IN /\ holdings' = SelectSeq(holdings, Kept)
       /\ result' = [op |-> "fetch_market_data", exc |-> "NameError",
                     before |-> Before,
                     arg |-> symbols, api |-> api, events |-> <<>>]
       /\ UNCHANGED <<users, portfolios, market_data>>

\* fetch_market_data.  Line 182 evaluates concurrent.futures.ThreadPoolExecutor
\* before any task is created; an unbound `concurrent` raises NameError there
\* and the coroutine ends with nothing fetched and nothing written.  `events`
\* is what the call did, in order: the start and the end of each fetch task,
\* the batch write (line 193) and the return (line 195).
FetchMarketData(symbols, api) ==
    IF ~NameBound("concurrent")
    THEN /\ result' = [op |-> "fetch_market_data", exc |-> "NameError",
                      before |-> Before,
                      arg |-> symbols, api |-> api, events |-> <<>>]
         /\ UNCHANGED <<users, portfolios, holdings, market_data>>
    ELSE LET results == GatherLoop(symbols, api, 1, EmptyDict)
         IN /\ market_data' = update_market_data(market_data, results)
            /\ result' = [op |-> "fetch_market_data", exc |-> "None",
                          before |-> Before,
                          arg |-> symbols, api |-> api, ret |-> results,
                          events |-> PoolEvents(symbols, api, 1, 1, <<>>)
                                       \o <<[ev |-> "write"],
                                            [ev |-> "return"]>>]
            /\ UNCHANGED <<users, portfolios, holdings>>

\* get_portfolio, lines 306-311: the lots of the portfolio, in rowid order.
PortfolioLots(portfolio_id) ==
    LET OfPortfolio(h) == h.portfolio_id = portfolio_id
    IN SelectSeq(holdings, OfPortfolio)

\* Mutant of GainPercent: the guard left out.
GainPercentUnguarded(gain, cost_basis) == Frac(gain * 100, cost_basis)

\* get_portfolio, line 322: (gain / cost_basis * 100) if cost_basis > 0 else 0
GainPercent(gain, cost_basis) ==
    IF cost_basis > 0 THEN Frac(gain * 100, cost_basis) ELSE FracZero

\* Mutant of LineItem: an uncached symbol valued at its purchase price.
LineItemAtCost(lot, md) ==
    LET current_data == DictGet(md, lot.symbol, EmptyDict)
        current_price == DictGet(current_data, "price", lot.purchase_price)
        current_value == lot.quantity * current_price
        cost_basis == lot.quantity * lot.purchase_price
        gain == current_value - cost_basis
    IN [symbol |-> lot.symbol,
        quantity |-> lot.quantity,
        purchase_price |-> lot.purchase_price,
        purchase_date |-> lot.purchase_date,
        current_price |-> current_price,
        current_value |-> current_value,
        cost_basis |-> cost_basis,
        gain |-> gain,
        gain_percent |-> IF cost_basis > 0 THEN Frac(gain * 100, cost_basis)
                         ELSE FracZero]

\* get_portfolio, lines 317-334: the line item of one lot.
LineItem(lot, md) ==
    LET current_data == DictGet(md, lot.symbol, EmptyDict)
        current_price == DictGet(current_data, "price", 0)
        current_value == lot.quantity * current_price
        cost_basis == lot.quantity * lot.purchase_price
        gain == current_value - cost_basis
    IN [symbol |-> lot.symbol,
        quantity |-> lot.quantity,
        purchase_price |-> lot.purchase_price,
        purchase_date |-> lot.purchase_date,
        current_price |-> current_price,
        current_value |-> current_value,
        cost_basis |-> cost_basis,
        gain |-> gain,
        gain_percent |-> GainPercent(gain, cost_basis)]

\* Mutant of ValueLoop: a lot of a symbol already listed is netted into that
\* symbol's line item instead of getting its own.
RECURSIVE ValueLoopNetted(_, _, _, _)
ValueLoopNetted(lots, md, i, portfolio) ==
    IF i > Len(lots) THEN portfolio
    ELSE LET item == [symbol |-> lots[i].symbol,
                      quantity |-> lots[i].quantity,
                      purchase_price |-> lots[i].purchase_price,
                      purchase_date |-> lots[i].purchase_date,
                      current_price |->
                          DictGet(DictGet(md, lots[i].symbol, EmptyDict),
                                  "price", 0),
                      current_value |-> lots[i].quantity *
                          DictGet(DictGet(md, lots[i].symbol, EmptyDict),
                                  "price", 0),
                      cost_basis |-> lots[i].quantity * lots[i].purchase_price,
                      gain |-> 0,
                      gain_percent |-> FracZero]
             hs == portfolio.holdings
             seen == {k \in 1..Len(hs) : hs[k].symbol = item.symbol}
         IN ValueLoopNetted(lots, md, i + 1,
                [portfolio EXCEPT
                    !.holdings =
                        IF seen = {} THEN Append(@, item)
                        ELSE [k \in 1..Len(hs) |->
                                IF k \in seen
                                THEN [hs[k] EXCEPT
                                        !.quantity = @ + item.quantity,
                                        !.current_value =
                                            @ + item.current_value,
                                        !.cost_basis = @ + item.cost_basis]
                                ELSE hs[k]],
                    !.total_value = @ + item.current_value,
                    !.total_cost = @ + item.cost_basis])

\* get_portfolio, lines 316-337: the loop over the lots, from position i on.
RECURSIVE ValueLoop(_, _, _, _)
ValueLoop(lots, md, i, portfolio) ==
    IF i > Len(lots) THEN portfolio
    ELSE LET item == LineItem(lots[i], md)
         IN ValueLoop(lots, md, i + 1,
                [portfolio EXCEPT
                    !.holdings = Append(@, item),
                    !.total_value = @ + item.current_value,
                    !.total_cost = @ + item.cost_basis])

\* Mutant of Totals: total_gain taken from the value alone.
TotalsNoCost(portfolio) ==
    [portfolio EXCEPT
        !.total_gain = portfolio.total_value,
        !.total_gain_percent =
            IF portfolio.total_cost > 0
            THEN Frac(portfolio.total_value * 100, portfolio.total_cost)
            ELSE @]

\* get_portfolio, lines 339-341.
Totals(portfolio) ==
    LET total_gain == portfolio.total_value - portfolio.total_cost
    IN [portfolio EXCEPT
           !.total_gain = total_gain,
           !.total_gain_percent =
               IF portfolio.total_cost > 0
               THEN Frac(total_gain * 100, portfolio.total_cost)
               ELSE @]

\* Mutant of get_portfolio: {} also for a portfolio without lots.
get_portfolio_empty_without_lots(portfolio_id) ==
    IF portfolio_id \notin 1..Len(portfolios) THEN EmptyDict
    ELSE IF PortfolioLots(portfolio_id) = <<>> THEN EmptyDict
    ELSE LET lots == PortfolioLots(portfolio_id)
             md == get_cached_market_data(
                       [i \in 1..Len(lots) |-> lots[i].symbol])
         IN Totals(ValueLoop(lots, md, 1,
                [id |-> portfolios[portfolio_id].id,
                 user_id |-> portfolios[portfolio_id].user_id,
                 name |-> portfolios[portfolio_id].name,
                 holdings |-> <<>>,
                 total_value |-> 0,
                 total_cost |-> 0,
                 total_gain |-> 0,
                 total_gain_percent |-> FracZero]))

\* get_portfolio
get_portfolio(portfolio_id) ==
    IF portfolio_id \notin 1..Len(portfolios) THEN EmptyDict
    ELSE LET portfolio_row == portfolios[portfolio_id]
             lots == PortfolioLots(portfolio_id)
             symbols == [i \in 1..Len(lots) |-> lots[i].symbol]
             md == get_cached_market_data(symbols)
             portfolio == [id |-> portfolio_row.id,
                           user_id |-> portfolio_row.user_id,
                           name |-> portfolio_row.name,
                           holdings |-> <<>>,
                           total_value |-> 0,
                           total_cost |-> 0,
                           total_gain |-> 0,
                           total_gain_percent |-> FracZero]
         IN Totals(ValueLoop(lots, md, 1, portfolio))

\* Mutant of GetPortfolio: the call refreshes the cache for the symbols of the
\* portfolio's lots that have no quote, after valuing them.
GetPortfolioRefreshing(portfolio_id) ==
    LET lots == PortfolioLots(portfolio_id)
        stale == {s \in Symbols : /\ \E i \in 1..Len(lots) : lots[i].symbol = s
                                   /\ market_data[s] = <<>>}
    IN /\ result' = [op |-> "get_portfolio", exc |-> "None",
                     before |-> Before,
                     arg |-> portfolio_id, ret |-> get_portfolio(portfolio_id)]
       /\ market_data' = [s \in Symbols |->
                             IF s \in stale
                             THEN << <<"symbol", s>>, <<"price", 150>> >>
                             ELSE market_data[s]]
       /\ UNCHANGED <<users, portfolios, holdings>>

GetPortfolio(portfolio_id) ==
    /\ result' = [op |-> "get_portfolio", exc |-> "None",
                  before |-> Before,
                  arg |-> portfolio_id, ret |-> get_portfolio(portfolio_id)]
    /\ UNCHANGED <<users, portfolios, holdings, market_data>>

\* calculate_portfolio_metrics, lines 362-367: the fixed symbol -> sector table.
sectors ==
    [AAPL |-> "Technology", MSFT |-> "Technology", GOOGL |-> "Technology",
     AMZN |-> "Consumer Cyclical", TSLA |-> "Automotive", JPM |-> "Financial",
     JNJ |-> "Healthcare", XOM |-> "Energy", WMT |-> "Consumer Defensive",
     V |-> "Financial", PG |-> "Consumer Defensive",
     DIS |-> "Communication Services"]

\* line 371: sectors.get(holding['symbol'], 'Other')
SectorOf(symbol) == DictGet(sectors, symbol, "Other")

\* Mutant of SectorLoop: a holding whose symbol is not in the lookup is left
\* out instead of going to "Other".
RECURSIVE SectorLoopKnownOnly(_, _, _)
SectorLoopKnownOnly(hs, i, sector_allocation) ==
    IF i > Len(hs) THEN sector_allocation
    ELSE SectorLoopKnownOnly(hs, i + 1,
            IF hs[i].symbol \in DOMAIN sectors
            THEN DictPut(sector_allocation, sectors[hs[i].symbol],
                         DictGet(sector_allocation, sectors[hs[i].symbol], 0)
                             + hs[i].current_value)
            ELSE sector_allocation)

\* lines 369-372: the defaultdict(float) loop, from position i on.
RECURSIVE SectorLoop(_, _, _)
SectorLoop(hs, i, sector_allocation) ==
    IF i > Len(hs) THEN sector_allocation
    ELSE LET sector == SectorOf(hs[i].symbol)
         IN SectorLoop(hs, i + 1,
                DictPut(sector_allocation, sector,
                        DictGet(sector_allocation, sector, 0)
                            + hs[i].current_value))

\* lines 353-354: gain_percent / 100 of the holdings whose gain_percent != 0.
Returns(hs) ==
    LET NonZero(h) == h.gain_percent # FracZero
        kept == SelectSeq(hs, NonZero)
    IN [i \in 1..Len(kept) |-> FracDiv(kept[i].gain_percent, FracInt(100))]

RECURSIVE FracSum(_, _)
FracSum(xs, i) ==
    IF i > Len(xs) THEN FracZero ELSE FracAdd(xs[i], FracSum(xs, i + 1))

\* statistics.mean
Mean(xs) == FracDiv(FracSum(xs, 1), FracInt(Len(xs)))

\* The square of statistics.stdev: the sample variance (Len(xs) > 1).
Variance(xs) ==
    LET m == Mean(xs)
        sq == [i \in 1..Len(xs) |->
                 FracMul(FracSub(xs[i], m), FracSub(xs[i], m))]
    IN FracDiv(FracSum(sq, 1), FracInt(Len(xs) - 1))

\* A non-negative real kept as its square: Root(x) stands for sqrt(x).
Root(x) == [sq |-> x]

\* Mutant of Volatility: the deviation taken of a single return too.
VolatilityUnguarded(returns) == Root(Variance(returns))

\* line 358
Volatility(returns) ==
    IF Len(returns) > 1 THEN Root(Variance(returns)) ELSE Root(FracZero)

\* line 359: avg_return / volatility if volatility > 0 else 0, kept as its
\* sign and its square.
SharpeRatio(avg_return, volatility) ==
    IF FracGt(volatility.sq, FracZero)
    THEN [sign |-> IF avg_return.n > 0 THEN 1
                   ELSE IF avg_return.n < 0 THEN -1 ELSE 0,
          sq |-> FracDiv(FracMul(avg_return, avg_return), volatility.sq)]
    ELSE [sign |-> 0, sq |-> FracZero]

\* line 377
TechWeight(sector_allocation, total_value) ==
    IF total_value > 0
    THEN Frac(DictGet(sector_allocation, "Technology", 0), total_value)
    ELSE FracZero

\* Mutant of RiskLevel: the thresholds taken inclusively.
RiskLevelInclusive(tech_weight) ==
    IF ~FracGt(Frac(4, 10), tech_weight) THEN "High"
    ELSE IF ~FracGt(Frac(2, 10), tech_weight) THEN "Medium"
    ELSE "Low"

\* lines 378-383
RiskLevel(tech_weight) ==
    IF FracGt(tech_weight, Frac(4, 10)) THEN "High"
    ELSE IF FracGt(tech_weight, Frac(2, 10)) THEN "Medium"
    ELSE "Low"

\* calculate_portfolio_metrics
calculate_portfolio_metrics(portfolio) ==
    IF portfolio.holdings = <<>> THEN EmptyDict
    ELSE LET returns == Returns(portfolio.holdings)
             sector_allocation == SectorLoop(portfolio.holdings, 1, EmptyDict)
             risk_level ==
                 RiskLevel(TechWeight(sector_allocation, portfolio.total_value))
             avg_return == Mean(returns)
             volatility == Volatility(returns)
         IN IF returns # <<>>
            THEN [avg_return |-> avg_return,
                  volatility |-> volatility,
                  sharpe_ratio |-> SharpeRatio(avg_return, volatility),
                  sector_allocation |-> sector_allocation,
                  risk_level |-> risk_level]
            ELSE [sector_allocation |-> sector_allocation,
                  risk_level |-> risk_level]

\* calculate_portfolio_metrics on the snapshot get_portfolio returns for an
\* existing portfolio, as the Dashboard page calls it.
CalculatePortfolioMetrics(portfolio_id) ==
    LET portfolio == get_portfolio(portfolio_id)
    IN /\ Truthy(portfolio)
       /\ result' = [op |-> "calculate_portfolio_metrics", exc |-> "None",
                     before |-> Before,
                     arg |-> portfolio,
                     ret |-> calculate_portfolio_metrics(portfolio)]
       /\ UNCHANGED <<users, portfolios, holdings, market_data>>

\* _load_risk_profiles, lines 125-144: the default profiles.
risk_profiles ==
    [conservative |-> [stocks |-> 40, bonds |-> 50, cash |-> 10],
     moderate |-> [stocks |-> 60, bonds |-> 35, cash |-> 5],
     aggressive |-> [stocks |-> 80, bonds |-> 15, cash |-> 5]]

\* What a call hands back: a list, or None.  (A list and None are kept apart
\* here, since [] and None differ for the caller of generate_recommendations.)
PyList(items) == [type |-> "list", items |-> items]
PyNone == [type |-> "NoneType"]

\* generate_recommendations, lines 401-414: the two rules, in order.
RecommendationRules(sector_allocation, total_value, risk_profile) ==
    LET tech_weight ==
            Frac(DictGet(sector_allocation, "Technology", 0), total_value)
        bonds_weight ==
            Frac(DictGet(sector_allocation, "Bonds", 0), total_value)
        rebalance ==
            IF FracGt(tech_weight, Frac(4, 10))
            THEN <<[type |-> "Rebalance", priority |-> "High"]>>
            ELSE <<>>
        diversification ==
            IF risk_profile = "conservative"
               /\ FracGt(Frac(4, 10), bonds_weight)
            THEN <<[type |-> "Diversification", priority |-> "Medium"]>>
            ELSE <<>>
    IN rebalance \o diversification

\* generate_recommendations.  `return recommendations` is at line 395 alone:
\* after the rules (line 414) the body ends, so the list they built is
\* dropped and the call returns None.
generate_recommendations(portfolio, risk_profile) ==
    LET target_allocation ==
            DictGet(risk_profiles, risk_profile, risk_profiles["moderate"])
        total_value == portfolio.total_value
        metrics == calculate_portfolio_metrics(portfolio)
        sector_allocation == DictGet(metrics, "sector_allocation", EmptyDict)
        recommendations ==
            RecommendationRules(sector_allocation, total_value, risk_profile)
    IN IF total_value = 0 THEN PyList(<<>>) ELSE PyNone

\* generate_recommendations on the snapshot get_portfolio returns for an
\* existing portfolio, as the Recommendations page calls it.
GenerateRecommendations(portfolio_id, risk_profile) ==
    LET portfolio == get_portfolio(portfolio_id)
    IN /\ Truthy(portfolio)
       /\ result' = [op |-> "generate_recommendations", exc |-> "None",
                     before |-> Before,
                     arg |-> [portfolio |-> portfolio,
                              risk_profile |-> risk_profile],
                     ret |-> generate_recommendations(portfolio, risk_profile)]
       /\ UNCHANGED <<users, portfolios, holdings, market_data>>

\* ------------------------------------------------------------------ inputs
\* The risk_profile a user can have: the names of the profiles.
ProfileNames == DOMAIN risk_profiles

\* Lists of at most MaxBatch distinct symbols, as the pages pass them.
Batches ==
    {b \in UNION {[1..n -> Symbols] : n \in 0..MaxBatch} :
        Cardinality(Range(b)) = Len(b)}

\* What the price service can do for one request.
ApiOutcomes ==
    {[ok |-> FALSE]} \cup {[ok |-> TRUE, price |-> p] : p \in ApiPrices}

\* Dicts symbol -> quote, as _update_market_data takes them.
QuoteDicts ==
    UNION {{[s \in S |-> Quote(s, f[s])] : f \in [S -> QuotePrices]} :
           S \in SUBSET Symbols}

Next ==
    \/ \E u \in Usernames, p \in Passwords, r \in RiskProfileNames :
          CreateUser(u, p, r)
    \/ \E u \in UserIds, n \in PortfolioNames : CreatePortfolio(u, n)
    \/ \E p \in PortfolioIds, s \in Symbols, l \in LotShapes, d \in Dates :
          AddHolding(p, s, l[1], l[2], d)
    \/ \E md \in QuoteDicts : UpdateMarketData(md)
    \/ \E b \in Batches : GetCachedMarketData(b)
    \/ \E b \in Batches : \E api \in [Range(b) -> ApiOutcomes] :
          FetchMarketData(b, api)
    \/ \E p \in PortfolioIds : GetPortfolio(p)
    \/ \E p \in PortfolioIds : CalculatePortfolioMetrics(p)
    \/ \E p \in PortfolioIds, r \in ProfileNames :
          GenerateRecommendations(p, r)

Spec == Init /\ [][Next]_vars

\* ------------------------------------------------- valuation on its own
\* The lots add_holding can append.
Lots ==
    {[portfolio_id |-> p, symbol |-> s, quantity |-> l[1],
      purchase_price |-> l[2], purchase_date |-> d] :
        p \in PortfolioIds, s \in Symbols, l \in LotShapes, d \in Dates}

\* The database states that create_portfolio, add_holding and
\* _update_market_data lead to from Init: get_portfolio and
\* calculate_portfolio_metrics read them and change nothing.
InitValuation ==
    /\ users = <<>>
    /\ portfolios \in {[i \in 1..n |-> [id |-> i, user_id |-> u, name |-> nm]] :
                          n \in 0..MaxPortfolios, u \in UserIds,
                          nm \in PortfolioNames}
    /\ holdings \in UNION {[1..n -> Lots] : n \in 0..MaxLots}
    /\ market_data \in [Symbols -> {None} \cup
                           {json_dumps(Quote(s, p)) :
                               s \in Symbols, p \in QuotePrices}]
    /\ \A s \in Symbols :
          market_data[s] # None => json_loads(market_data[s]).symbol = s
    /\ result = [op |-> "__init__"]

\* A query changes no table and reads nothing of the call before it, so each
\* database state is queried once.
NextValuation ==
    /\ result.op = "__init__"
    /\ \/ \E p \in PortfolioIds : GetPortfolio(p)
       \/ \E p \in PortfolioIds : CalculatePortfolioMetrics(p)
       \/ \E p \in PortfolioIds, r \in ProfileNames :
             GenerateRecommendations(p, r)

SpecValuation == InitValuation /\ [][NextValuation]_vars

\* ------------------------------------------- one call from every database
\* The portfolio ids a lot can carry: add_holding checks none of them (the
\* FOREIGN KEY clause is not enforced), so there is one more than portfolios.
LedgerIds == 1..(MaxPortfolios + 1)

\* <<quantity, purchase_price>> of the lots a ledger starts with.
LedgerShapes == {<<10, 100>>}

LedgerLots ==
    {[portfolio_id |-> p, symbol |-> s, quantity |-> l[1],
      purchase_price |-> l[2], purchase_date |-> d] :
        p \in LedgerIds, s \in Symbols, l \in LedgerShapes, d \in Dates}

\* The database states that create_portfolio, add_holding and
\* _update_market_data lead to from Init, with lots of several portfolio ids.
InitLedger ==
    /\ users = <<>>
    /\ portfolios \in {[i \in 1..n |-> [id |-> i, user_id |-> u, name |-> nm]] :
                          n \in 0..MaxPortfolios, u \in UserIds,
                          nm \in PortfolioNames}
    /\ holdings \in UNION {[1..n -> LedgerLots] : n \in 0..MaxLots}
    /\ market_data \in [Symbols -> {None} \cup
                           {json_dumps(Quote(s, p)) :
                               s \in Symbols, p \in QuotePrices}]
    /\ \A s \in Symbols :
          market_data[s] # None => json_loads(market_data[s]).symbol = s
    /\ result = [op |-> "__init__"]

\* The calls that only read the tables.
Queries ==
    {"get_cached_market_data", "get_portfolio", "calculate_portfolio_metrics",
     "generate_recommendations"}

\* Any operation on each of these database states, and any operation again
\* after a query.  Every call's record keeps the tables it found, against
\* which its effect is read; the tables a writing call leaves are not
\* explored further, being the start of another behaviour.
NextLedger ==
    /\ result.op \in {"__init__"} \cup Queries
    /\ \/ \E u \in Usernames, p \in Passwords, r \in RiskProfileNames :
             CreateUser(u, p, r)
       \/ \E u \in UserIds, n \in PortfolioNames : CreatePortfolio(u, n)
       \/ \E p \in LedgerIds, s \in Symbols, l \in LotShapes, d \in Dates :
             AddHolding(p, s, l[1], l[2], d)
       \/ \E md \in QuoteDicts : UpdateMarketData(md)
       \/ \E b \in Batches : GetCachedMarketData(b)
       \/ \E b \in Batches : \E api \in [Range(b) -> ApiOutcomes] :
             FetchMarketData(b, api)
       \/ \E p \in LedgerIds : GetPortfolio(p)
       \/ \E p \in LedgerIds : CalculatePortfolioMetrics(p)
       \/ \E p \in LedgerIds, r \in ProfileNames :
             GenerateRecommendations(p, r)

SpecLedger == InitLedger /\ [][NextLedger]_vars

\* ================================================================== claims
\* The last call was get_portfolio and it found the portfolio.
Valued == result.op = "get_portfolio" /\ Truthy(result.ret)

\* The price of the cached quote of `symbol`, or 0 when it has none.
CachedPriceOrZero(symbol) ==
    IF market_data[symbol] = None THEN 0 ELSE market_data[symbol][2][2]

\* The rows of the holdings table that belong to the portfolio, by position.
LotRows(portfolio_id) ==
    {i \in 1..Len(holdings) : holdings[i].portfolio_id = portfolio_id}

\* The k-th (k >= 1) smallest element of a set of positions.
RECURSIVE Kth(_, _)
Kth(S, k) ==
    LET m == CHOOSE x \in S : \A y \in S : x <= y
    IN IF k = 1 THEN m ELSE Kth(S \ {m}, k - 1)

\* The lot behind the i-th line item of the snapshot of the portfolio.
LotOfItem(portfolio_id, i) == holdings[Kth(LotRows(portfolio_id), i)]

RECURSIVE SumValue(_, _)
SumValue(hs, i) ==
    IF i > Len(hs) THEN 0 ELSE hs[i].current_value + SumValue(hs, i + 1)

RECURSIVE SumCost(_, _)
SumCost(hs, i) ==
    IF i > Len(hs) THEN 0 ELSE hs[i].cost_basis + SumCost(hs, i + 1)

\* C1: every line item get_portfolio returns has current_value = quantity *
\* (cached price of its symbol, or 0 without a cached quote), cost_basis =
\* quantity * purchase_price, gain = current_value - cost_basis and, when
\* cost_basis > 0, gain_percent = gain / cost_basis * 100; a single lot AAPL
\* 10 @ 100 with cached price 150 gives 1500, 1000, 500, 50 and totals 1500, 50.
C1_LotValuation ==
    Valued =>
      LET snap == result.ret
      IN /\ Len(snap.holdings) <= Cardinality(LotRows(result.arg))
         /\ \A i \in 1..Len(snap.holdings) :
              LET h == snap.holdings[i]
                  lot == LotOfItem(result.arg, i)
              IN /\ h.current_value =
                      lot.quantity * CachedPriceOrZero(lot.symbol)
                 /\ h.cost_basis = lot.quantity * lot.purchase_price
                 /\ h.gain = h.current_value - h.cost_basis
                 /\ h.cost_basis > 0 =>
                      /\ h.gain_percent.d > 0
                      /\ h.gain_percent.n * h.cost_basis
                           = h.gain * 100 * h.gain_percent.d
         /\ ( /\ Cardinality(LotRows(result.arg)) = 1
              /\ LotOfItem(result.arg, 1).symbol = "AAPL"
              /\ LotOfItem(result.arg, 1).quantity = 10
              /\ LotOfItem(result.arg, 1).purchase_price = 100
              /\ CachedPriceOrZero("AAPL") = 150 )
            => /\ Len(snap.holdings) = 1
               /\ snap.holdings[1].current_value = 1500
               /\ snap.holdings[1].cost_basis = 1000
               /\ snap.holdings[1].gain = 500
               /\ snap.holdings[1].gain_percent = FracInt(50)
               /\ snap.total_value = 1500
               /\ snap.total_gain_percent = FracInt(50)

\* C1 witness: the snapshot of the single lot AAPL 10 @ 100 valued at 150.
C1_Witness ==
    /\ Valued
    /\ Len(result.ret.holdings) = 1
    /\ result.ret.holdings[1].symbol = "AAPL"
    /\ result.ret.holdings[1].cost_basis = 1000
    /\ result.ret.holdings[1].current_value = 1500
    /\ result.ret.total_gain_percent = FracInt(50)

\* C2: a line item with cost_basis = 0 (quantity 0 or purchase_price 0) has
\* gain_percent = 0 whatever the cached price, a snapshot with total_cost = 0
\* has total_gain_percent = 0, and get_portfolio divides by zero nowhere.
C2_ZeroCostGuard ==
    Valued =>
      LET snap == result.ret
      IN /\ result.exc = "None"
         /\ snap.total_gain_percent # Undefined
         /\ snap.total_cost = 0 => snap.total_gain_percent = FracZero
         /\ \A i \in 1..Len(snap.holdings) :
              /\ snap.holdings[i].gain_percent # Undefined
              /\ snap.holdings[i].cost_basis = 0 =>
                    snap.holdings[i].gain_percent = FracZero

\* C2 witness: a lot bought at price 0 and a lot of quantity 0, both of a
\* symbol with a cached price, so that the gain of the first is not 0.
C2_Witness ==
    /\ Valued
    /\ Len(result.ret.holdings) = 2
    /\ result.ret.holdings[1].quantity > 0
    /\ result.ret.holdings[1].purchase_price = 0
    /\ result.ret.holdings[1].gain > 0
    /\ result.ret.holdings[2].quantity = 0
    /\ result.ret.holdings[2].current_price > 0
    /\ result.ret.total_cost = 0
    /\ result.ret.total_gain > 0

\* C3: the snapshot's total_value is the sum of the line items' current_value,
\* its total_cost the sum of their cost_basis, and total_gain = total_value -
\* total_cost.
C3_TotalsAreSums ==
    Valued =>
      LET snap == result.ret
      IN /\ snap.total_value = SumValue(snap.holdings, 1)
         /\ snap.total_cost = SumCost(snap.holdings, 1)
         /\ snap.total_gain = snap.total_value - snap.total_cost

\* C3 witness: two line items of different value and cost, one uncached.
C3_Witness ==
    /\ Valued
    /\ Len(result.ret.holdings) = 2
    /\ result.ret.holdings[1].current_value > 0
    /\ result.ret.holdings[2].current_value = 0
    /\ result.ret.holdings[2].cost_basis > result.ret.holdings[1].cost_basis
    /\ result.ret.holdings[1].cost_basis > 0
    /\ result.ret.total_gain < 0

\* C4: get_portfolio returns one line item per lot of the portfolio, in the
\* ledger's order, each with its own lot's symbol, quantity and purchase
\* price; two lots of one symbol bought at 100 and at 200 and quoted at 150
\* give two line items, total_cost = total_value and total_gain = 0.
C4_NoNetting ==
    Valued =>
      LET snap == result.ret
          rows == LotRows(result.arg)
      IN /\ Len(snap.holdings) = Cardinality(rows)
         /\ \A i \in 1..Cardinality(rows) :
              /\ snap.holdings[i].symbol = LotOfItem(result.arg, i).symbol
              /\ snap.holdings[i].quantity = LotOfItem(result.arg, i).quantity
              /\ snap.holdings[i].purchase_price
                   = LotOfItem(result.arg, i).purchase_price
              /\ snap.holdings[i].cost_basis
                   = LotOfItem(result.arg, i).quantity
                       * LotOfItem(result.arg, i).purchase_price
         /\ ( /\ Len(holdings) = 2
              /\ rows = {1, 2}
              /\ holdings[1].symbol = "AAPL" /\ holdings[2].symbol = "AAPL"
              /\ holdings[1].quantity = 10 /\ holdings[2].quantity = 10
              /\ holdings[1].purchase_price = 100
              /\ holdings[2].purchase_price = 200
              /\ CachedPriceOrZero("AAPL") = 150 )
            => /\ Len(snap.holdings) = 2
               /\ snap.total_cost = 3000
               /\ snap.total_value = 3000
               /\ snap.total_gain = 0

\* C4 witness: two lots of AAPL, 10 @ 100 and 10 @ 200, quoted at 150.
C4_Witness ==
    /\ Valued
    /\ Len(result.ret.holdings) = 2
    /\ result.ret.holdings[1].symbol = "AAPL"
    /\ result.ret.holdings[2].symbol = "AAPL"
    /\ result.ret.holdings[1].purchase_price = 100
    /\ result.ret.holdings[2].purchase_price = 200
    /\ result.ret.holdings[1].current_value = 1500
    /\ result.ret.total_cost = 3000
    /\ result.ret.total_gain = 0

\* The last call was fetch_market_data.
Fetched == result.op = "fetch_market_data"

\* The symbols of the last fetch_market_data batch whose fetch succeeds.
Succeeded == {s \in Range(result.arg) : result.api[s].ok}

\* C5: get_portfolio values a lot of an uncached symbol at price 0, and after
\* fetch_market_data([symbol]) in which the symbol's fetch succeeds the next
\* get_portfolio values the lots of that symbol at the fetched price.
C5_RevaluedAfterFetch ==
    /\ Valued =>
         \A i \in 1..Len(result.ret.holdings) :
             market_data[result.ret.holdings[i].symbol] = None
                 => result.ret.holdings[i].current_price = 0
    /\ (Fetched /\ Len(result.arg) = 1 /\ Succeeded # {}) =>
         \A p \in PortfolioIds :
             Truthy(get_portfolio(p)) =>
                 \A i \in 1..Len(get_portfolio(p).holdings) :
                     get_portfolio(p).holdings[i].symbol = result.arg[1]
                         => get_portfolio(p).holdings[i].current_price
                              = result.api[result.arg[1]].price

\* C6: fetch_market_data is not aborted by a symbol's failure: it returns the
\* mapping of exactly the symbols whose fetch succeeded, each to its quote,
\* and those quotes are in the price cache.
C6_FailureIsolation ==
    Fetched =>
      /\ result.exc = "None"
      /\ DOMAIN result.ret = Succeeded
      /\ \A s \in Succeeded :
           /\ result.ret[s] = Quote(s, result.api[s].price)
           /\ market_data[s] # None
           /\ CachedPriceOrZero(s) = result.api[s].price

\* The last call was calculate_portfolio_metrics on a snapshot with holdings.
Measured ==
    /\ result.op = "calculate_portfolio_metrics"
    /\ Len(result.arg.holdings) > 0

\* C7: for a snapshot with at least one holding, risk_level is High iff
\* sector_allocation[Technology] / total_value > 0.4, Medium iff it is in
\* (0.2, 0.4], Low otherwise; total_value = 0 gives Low and raises nothing.
C7_RiskLevel ==
    Measured =>
      LET tech == IF "Technology" \in DOMAIN result.ret.sector_allocation
                  THEN result.ret.sector_allocation["Technology"] ELSE 0
          total == result.arg.total_value
          level == result.ret.risk_level
      IN /\ result.exc = "None"
         /\ total >= 0
         /\ level \in {"High", "Medium", "Low"}
         /\ level = "High" <=> (total > 0 /\ 10 * tech > 4 * total)
         /\ level = "Medium" <=>
              (total > 0 /\ 10 * tech > 2 * total /\ 10 * tech <= 4 * total)
         /\ total = 0 => level = "Low"

\* C7 witness: a Technology weight of exactly 0.4, which is Medium.
C7_Witness ==
    /\ Measured
    /\ result.arg.total_value > 0
    /\ "Technology" \in DOMAIN result.ret.sector_allocation
    /\ 10 * result.ret.sector_allocation["Technology"]
         = 4 * result.arg.total_value
    /\ result.ret.risk_level = "Medium"

\* C8 as claimed: get_portfolio returns an empty result when the portfolio has
\* no lots.
C8_EmptyWhenNoLots ==
    (result.op = "get_portfolio" /\ LotRows(result.arg) = {})
        => ~Truthy(result.ret)

\* C8 amended: get_portfolio returns the empty result {} exactly when no
\* portfolio has the given id; for an existing portfolio without lots it
\* returns a snapshot with the portfolio's id, an empty holdings list and
\* total_value, total_cost, total_gain and total_gain_percent all 0.
C8_NoLotsSnapshot ==
    result.op = "get_portfolio" =>
      /\ ~Truthy(result.ret) <=> result.arg \notin 1..Len(portfolios)
      /\ (Truthy(result.ret) /\ LotRows(result.arg) = {}) =>
           /\ result.ret.id = result.arg
           /\ result.ret.holdings = <<>>
           /\ result.ret.total_value = 0
           /\ result.ret.total_cost = 0
           /\ result.ret.total_gain = 0
           /\ result.ret.total_gain_percent = FracZero

\* C8 witness: the snapshot of an existing portfolio that has no lots.
C8_Witness ==
    /\ Valued
    /\ LotRows(result.arg) = {}
    /\ result.ret.holdings = <<>>
    /\ result.ret.total_value = 0

\* The last call was get_cached_market_data.
Looked == result.op = "get_cached_market_data"

\* C9: get_cached_market_data(symbols) returns a mapping whose keys are the
\* requested symbols that have a cache entry, each mapped to its cached quote,
\* with no entry for an uncached symbol, and the call leaves the cache as it
\* found it.
C9_CachedLookup ==
    Looked =>
      /\ DOMAIN result.ret = {s \in Range(result.arg) : market_data[s] # None}
      /\ \A s \in DOMAIN result.ret :
           /\ result.ret[s].symbol = market_data[s][1][2]
           /\ result.ret[s].price = market_data[s][2][2]
      /\ market_data = result.before.market_data

\* C9 witness: a lookup of two symbols of which one is cached.
C9_Witness ==
    /\ Looked
    /\ Len(result.arg) = 2
    /\ market_data[result.arg[1]] = None
    /\ market_data[result.arg[2]] # None
    /\ DOMAIN result.ret = {result.arg[2]}
    /\ result.ret[result.arg[2]].price = 150

\* The quotes a call wrote to the price cache: the argument of
\* _update_market_data, the results of a fetch_market_data that returned.
Written(r) ==
    IF r.op = "_update_market_data" THEN r.arg
    ELSE IF r.op = "fetch_market_data" /\ r.exc = "None" THEN r.ret
    ELSE EmptyDict

\* C10: the cache holds at most one quote per symbol, last write wins: a call
\* that writes quotes leaves for each written symbol an entry holding the
\* written quote and leaves every other symbol's entry as it found it, no
\* other call changes an entry, and no call removes one.
C10_LastWriteWins ==
    result.op # "__init__" =>
      \A s \in Symbols :
        /\ result.before.market_data[s] # None => market_data[s] # None
        /\ IF s \in DOMAIN Written(result)
           THEN /\ market_data[s] # None
                /\ market_data[s][1][2] = Written(result)[s].symbol
                /\ market_data[s][2][2] = Written(result)[s].price
           ELSE market_data[s] = result.before.market_data[s]

\* C10 witness: a write of AAPL alone at 150 over its entry of 100, after
\* which the entry of ZZZ, written before at 100, is still there.
C10_Witness ==
    /\ result.op = "_update_market_data"
    /\ result.before.market_data["AAPL"] # None
    /\ result.before.market_data["AAPL"][2][2] = 100
    /\ DOMAIN result.arg = {"AAPL"}
    /\ result.arg["AAPL"].price = 150
    /\ CachedPriceOrZero("AAPL") = 150
    /\ CachedPriceOrZero("ZZZ") = 100

\* C11: fetch_market_data leaves the holdings ledger, the portfolios and the
\* users as it found them, for every batch and every mix of per-symbol
\* successes and failures.
C11_FetchFrame ==
    Fetched =>
      /\ users = result.before.users
      /\ portfolios = result.before.portfolios
      /\ holdings = result.before.holdings

\* C11 witness: a fetch of two symbols, one succeeding and one failing, on a
\* database that has a portfolio and a lot of each of the two symbols.
C11_Witness ==
    /\ Fetched
    /\ Len(result.arg) = 2
    /\ Succeeded # {}
    /\ Succeeded # Range(result.arg)
    /\ portfolios # <<>>
    /\ Len(holdings) = 2
    /\ holdings[1].symbol # holdings[2].symbol

\* The lots of the ledger `table` that belong to the portfolio, in order.
LotsOf(table, portfolio_id) ==
    LET OfPortfolio(h) == h.portfolio_id = portfolio_id
    IN SelectSeq(table, OfPortfolio)

\* The list xs is an initial part of the list ys.
IsPrefix(xs, ys) ==
    /\ Len(xs) <= Len(ys)
    /\ \A i \in 1..Len(xs) : xs[i] = ys[i]

\* C12: the ledger is append-only: add_holding appends exactly one lot, with
\* the values it was given, to the named portfolio, changing no lot that was
\* there and no other portfolio's lots; no other call changes the ledger; so
\* the lots listed for a portfolio extend the listing the call found.
C12_AppendOnly ==
    result.op # "__init__" =>
      LET old == result.before.holdings
      IN /\ IF result.op = "add_holding"
            THEN /\ Len(holdings) = Len(old) + 1
                 /\ IsPrefix(old, holdings)
                 /\ holdings[Len(holdings)] =
                        [portfolio_id |-> result.arg[1],
                         symbol |-> result.arg[2],
                         quantity |-> result.arg[3],
                         purchase_price |-> result.arg[4],
                         purchase_date |-> result.arg[5]]
                 /\ LotsOf(holdings, result.arg[1]) =
                        Append(LotsOf(old, result.arg[1]),
                               holdings[Len(holdings)])
                 /\ \A p \in LedgerIds \ {result.arg[1]} :
                        LotsOf(holdings, p) = LotsOf(old, p)
            ELSE holdings = old
         /\ \A p \in LedgerIds : IsPrefix(LotsOf(old, p), LotsOf(holdings, p))

\* C12 witness: a lot added to a portfolio that already has a lot of the same
\* symbol, bought at another price.
C12_Witness ==
    /\ result.op = "add_holding"
    /\ Len(result.before.holdings) = 1
    /\ Len(holdings) = 2
    /\ holdings[1].portfolio_id = holdings[2].portfolio_id
    /\ holdings[1].symbol = holdings[2].symbol
    /\ holdings[1].purchase_price # holdings[2].purchase_price

\* C12 witness of the other portfolios: a lot added to one portfolio while
\* the ledger holds a lot of another.
C12_OtherPortfolio ==
    /\ result.op = "add_holding"
    /\ Len(holdings) = 2
    /\ holdings[1].portfolio_id # holdings[2].portfolio_id
    /\ LotsOf(holdings, holdings[1].portfolio_id) = <<holdings[1]>>

\* The last call was generate_recommendations.
Recommended == result.op = "generate_recommendations"

\* The current_value the snapshot's holdings have in the Technology sector.
RECURSIVE TechValue(_, _)
TechValue(hs, i) ==
    IF i > Len(hs) THEN 0
    ELSE (IF hs[i].symbol \in {"AAPL", "MSFT", "GOOGL"}
          THEN hs[i].current_value ELSE 0) + TechValue(hs, i + 1)

\* C13: generate_recommendations returns a sequence for every snapshot and
\* risk profile: empty when total_value = 0; otherwise it has a High-priority
\* Rebalance entry iff the Technology weight is > 0.4, a Medium-priority
\* Diversification entry when the profile is conservative (no holding is in
\* a Bonds sector, so the bond weight is 0 < 0.4), and Rebalance comes first.
C13_Recommendations ==
    Recommended =>
      /\ result.exc = "None"
      /\ result.ret.type = "list"
      /\ LET recs == result.ret.items
             snap == result.arg.portfolio
             rebalance == [type |-> "Rebalance", priority |-> "High"]
             diversification ==
                 [type |-> "Diversification", priority |-> "Medium"]
             overweight ==
                 10 * TechValue(snap.holdings, 1) > 4 * snap.total_value
             conservative == result.arg.risk_profile = "conservative"
         IN IF snap.total_value = 0 THEN recs = <<>>
            ELSE /\ (\E i \in 1..Len(recs) : recs[i] = rebalance)
                      <=> overweight
                 /\ conservative =>
                      \E i \in 1..Len(recs) : recs[i] = diversification
                 /\ \A i, j \in 1..Len(recs) :
                      (recs[i] = rebalance /\ recs[j] = diversification)
                          => i < j

\* The number of holdings of the snapshot whose gain_percent is not zero: the
\* size of the return sample.
SampleSize(snap) ==
    Cardinality({i \in 1..Len(snap.holdings) :
                    snap.holdings[i].gain_percent # FracZero})

\* The entries of the metrics that are computed from the return sample.
SampleKeys == {"avg_return", "volatility", "sharpe_ratio"}

\* C14 as claimed: for a snapshot with at least one holding the metrics have
\* volatility = 0 whenever the return sample has fewer than two data points,
\* and sharpe_ratio = 0 whenever volatility is not > 0; nothing is raised.
C14_ZeroVolatility ==
    Measured =>
      /\ result.exc = "None"
      /\ SampleSize(result.arg) < 2 =>
            /\ "volatility" \in DOMAIN result.ret
            /\ result.ret.volatility = Root(FracZero)
      /\ ("volatility" \in DOMAIN result.ret
             /\ ~FracGt(result.ret.volatility.sq, FracZero)) =>
            result.ret.sharpe_ratio = [sign |-> 0, sq |-> FracZero]

\* C14 amended: with an empty return sample the metrics have no avg_return,
\* volatility or sharpe_ratio entry; with a sample of one or more they have
\* all three, volatility = 0 when the sample has exactly one data point, and
\* sharpe_ratio = 0 whenever volatility is not > 0; nothing is raised and no
\* division by zero is evaluated.
C14_SampleGuards ==
    Measured =>
      /\ result.exc = "None"
      /\ IF SampleSize(result.arg) = 0
         THEN DOMAIN result.ret \cap SampleKeys = {}
         ELSE /\ SampleKeys \subseteq DOMAIN result.ret
              /\ result.ret.avg_return # Undefined
              /\ result.ret.volatility.sq # Undefined
              /\ result.ret.sharpe_ratio.sq # Undefined
              /\ SampleSize(result.arg) = 1 =>
                    result.ret.volatility = Root(FracZero)
              /\ ~FracGt(result.ret.volatility.sq, FracZero) =>
                    result.ret.sharpe_ratio = [sign |-> 0, sq |-> FracZero]
              /\ FracGt(result.ret.volatility.sq, FracZero) =>
                    /\ SampleSize(result.arg) >= 2
                    /\ result.ret.sharpe_ratio.sq.n * result.ret.volatility.sq.n
                         * result.ret.avg_return.d * result.ret.avg_return.d
                       = result.ret.avg_return.n * result.ret.avg_return.n
                         * result.ret.sharpe_ratio.sq.d
                         * result.ret.volatility.sq.d

\* C14 witness: two holdings of which one has a return, 50 percent: a sample
\* of one, with volatility 0 and sharpe_ratio 0 beside avg_return 1/2.
C14_Witness ==
    /\ Measured
    /\ Len(result.arg.holdings) = 2
    /\ SampleSize(result.arg) = 1
    /\ result.ret.avg_return = Frac(1, 2)
    /\ result.ret.volatility = Root(FracZero)
    /\ result.ret.sharpe_ratio = [sign |-> 0, sq |-> FracZero]

\* C14 witness of a sample of two equal returns: volatility 0 by the
\* deviation itself, and sharpe_ratio 0.
C14_EqualReturns ==
    /\ Measured
    /\ SampleSize(result.arg) = 2
    /\ result.ret.avg_return # FracZero
    /\ result.ret.volatility = Root(FracZero)
    /\ result.ret.sharpe_ratio = [sign |-> 0, sq |-> FracZero]

\* C14 witness of a positive volatility: returns of 50 and -25 percent.
C14_Spread ==
    /\ Measured
    /\ SampleSize(result.arg) = 2
    /\ FracGt(result.ret.volatility.sq, FracZero)
    /\ result.ret.sharpe_ratio.sign = 1

\* The calls that write lots or quotes.
Writers == {"add_holding", "_update_market_data", "fetch_market_data"}

\* C15: get_portfolio is read-only and deterministic: a call performs no
\* fetch, changes no table and returns the snapshot that the tables it found
\* determine; a call that is not add_holding or a cache write leaves the
\* ledger, the cache and the row of every existing portfolio, which is all a
\* snapshot is computed from, as they were; and a get_portfolio that follows
\* a get_portfolio of the same portfolio returns the same snapshot.
C15_ReadOnlyDeterministic ==
    [][/\ result'.op = "get_portfolio" =>
            /\ UNCHANGED <<users, portfolios, holdings, market_data>>
            /\ result'.exc = "None"
            /\ "api" \notin DOMAIN result'
            /\ result'.ret = get_portfolio(result'.arg)
       /\ result'.op \notin Writers =>
            /\ holdings' = holdings
            /\ market_data' = market_data
            /\ \A p \in 1..Len(portfolios) :
                  /\ p \in 1..Len(portfolios')
                  /\ portfolios'[p] = portfolios[p]
       /\ (/\ result.op = "get_portfolio"
           /\ result'.op = "get_portfolio"
           /\ result'.arg = result.arg) => result'.ret = result.ret]_vars

\* C15 witness: a snapshot of two lots, one quoted and one not, returned by a
\* call that found the tables as they are now.
C15_Witness ==
    /\ Valued
    /\ Len(result.ret.holdings) = 2
    /\ result.ret.holdings[1].current_price = 150
    /\ result.ret.holdings[2].current_price = 0
    /\ market_data[result.ret.holdings[2].symbol] = None
    /\ Before = result.before

\* The positions in the events of the last fetch_market_data call at which
\* the event `ev` of the task of `symbol` is.
TaskEvents(ev, symbol) ==
    {i \in 1..Len(result.events) :
        /\ result.events[i].ev = ev
        /\ result.events[i].symbol = symbol}

\* The positions of the events `ev` of the call itself (write, return).
CallEvents(ev) == {i \in 1..Len(result.events) : result.events[i].ev = ev}

\* The number of tasks running after the first k events.
Running(k) ==
    Cardinality({i \in 1..k : result.events[i].ev = "start"})
        - Cardinality({i \in 1..k : result.events[i].ev = "end"})

\* C16: fetch_market_data is a fan-out/fan-in barrier: every symbol's fetch
\* task is started exactly once and ends exactly once, in success or failure
\* as its own request goes, whatever its siblings do; there is one batch
\* write and one return, both after the end of every task, the write first;
\* so no cache entry is written while a task of the call is pending.
C16_Barrier ==
    Fetched =>
      /\ \A s \in Range(result.arg) :
            /\ Cardinality(TaskEvents("start", s)) = 1
            /\ Cardinality(TaskEvents("end", s)) = 1
            /\ \A i \in TaskEvents("start", s), j \in TaskEvents("end", s) :
                  /\ i < j
                  /\ result.events[j].ok = result.api[s].ok
            /\ \A j \in TaskEvents("end", s) :
                  \A w \in CallEvents("write") \cup CallEvents("return") :
                      j < w
      /\ Cardinality(CallEvents("write")) = 1
      /\ Cardinality(CallEvents("return")) = 1
      /\ \A w \in CallEvents("write"), r \in CallEvents("return") : w < r
      /\ \A w \in CallEvents("write") : Running(w) = 0

\* C17: during a fetch_market_data call the number of fetch tasks running at
\* the same time never exceeds max_threads, and every symbol of the batch is
\* fetched: its task has run to its end when the call is over.
C17_BoundedPool ==
    Fetched =>
      /\ \A k \in 0..Len(result.events) : Running(k) <= max_threads
      /\ \A s \in Range(result.arg) : TaskEvents("end", s) # {}

\* The sum of the values of the dict d over the keys in S.
RECURSIVE SumOver(_, _)
SumOver(d, S) ==
    IF S = {} THEN 0
    ELSE LET k == CHOOSE x \in S : TRUE
         IN d[k] + SumOver(d, S \ {k})

\* The sector a holding's value belongs to: the one the fixed lookup gives
\* its symbol, "Other" for a symbol the lookup does not have.
HoldingSector(h) ==
    IF h.symbol \in DOMAIN sectors THEN sectors[h.symbol] ELSE "Other"

\* The current_value of the holdings, from position i on, of one sector.
RECURSIVE SectorValue(_, _, _)
SectorValue(hs, i, sector) ==
    IF i > Len(hs) THEN 0
    ELSE (IF HoldingSector(hs[i]) = sector THEN hs[i].current_value ELSE 0)
             + SectorValue(hs, i + 1, sector)

\* C18: for a snapshot with at least one holding, sector_allocation has an
\* entry for exactly the sectors of the holdings, each entry is the sum of
\* the current_value of the holdings of that sector (every holding counts in
\* one sector, "Other" when its symbol is not in the lookup), and the entries
\* sum to the snapshot's total_value.
C18_SectorsSumToTotal ==
    Measured =>
      LET sa == result.ret.sector_allocation
          hs == result.arg.holdings
      IN /\ DOMAIN sa = {HoldingSector(hs[i]) : i \in 1..Len(hs)}
         /\ \A sector \in DOMAIN sa : sa[sector] = SectorValue(hs, 1, sector)
         /\ SumOver(sa, DOMAIN sa) = result.arg.total_value

\* C18 witness: a holding of AAPL worth 1500 and a holding of ZZZ, which the
\* lookup does not have, worth 1000: Technology 1500, Other 1000, total 2500.
C18_Witness ==
    /\ Measured
    /\ Len(result.arg.holdings) = 2
    /\ result.arg.total_value = 2500
    /\ result.ret.sector_allocation = [Technology |-> 1500, Other |-> 1000]
====
